---- MODULE Spec2Model ----
(***************************************************************************)
(* A model of helPME's dense Matrix class (src/src/matrix.h, lines 1-527)  *)
(* and of the C entry points that wrap the PME instance (lines 528-653).   *)
(*                                                                         *)
(* A Matrix is a record [nRows, nCols, data] where data is the row-major   *)
(* buffer, a function on 0 .. nRows*nCols-1 exactly as the code indexes    *)
(* data_.  Element values are integers: the code's arithmetic is modelled  *)
(* exactly (no rounding), and the two thresholds of the code (1e-10) are   *)
(* one unit of the integer scale.  A quotient by a value the code computes *)
(* at run time is kept as a numerator matrix with a common denominator.    *)
(*                                                                         *)
(* Where it matters which buffer is read or written (constructors, slices, *)
(* the storage of returned matrices), a Matrix is the object with its      *)
(* vector allocatedData_ and its pointer data_, and heap holds the         *)
(* buffers.  transposeMemoryInPlace is also modelled statement by          *)
(* statement, with its locals in frame.                                    *)
(***************************************************************************)
EXTENDS Integers, Sequences, FiniteSets, TLC

VARIABLES
    self,     \* the Matrix the member function is called on (*this)
    other,    \* the argument of the call: a Matrix, a SortOrder, or NoArg
    ret,      \* what the last call did: returned a value or threw
    lapack,   \* what the eigensolver collaborator answered during the call
    process,  \* the process behind the C boundary: running or exited
    stderr,   \* the diagnostics written to standard error, in order
    heap,     \* the buffers matrices point into, when a call is modelled on objects
    frame     \* the locals of a transposeMemoryInPlace that runs step by step

vars == <<self, other, ret, lapack, process, stderr, heap, frame>>

----------------------------------------------------------------------------
(* Bounds of the model. *)

\* Rows and columns of the matrices that are transposed.
MaxDim == 3

\* Rows and columns of the operands of the binary operations, and of the
\* receivers of the calls on a Matrix object in general.
MaxOperandDim == 2

\* Order of the matrices that are diagonalized with every solver answer.
MaxEigDim == 3

\* Calls made through the C entry points before the model stops.
MaxCalls == 3

----------------------------------------------------------------------------
(* Values and containers. *)

Bits == {0, 1}

NoArg == [kind |-> "none"]

NoCall == [op |-> "none", status |-> "none"]

NoLapack == [called |-> FALSE]

NoHeap == [kind |-> "none"]

NoFrame == [pc |-> "none"]

Abs(x) == IF x < 0 THEN 0 - x ELSE x

\* Matrix(size_t nRows, size_t nCols): storage of nRows*nCols zeros.
Matrix(nRows, nCols) ==
    [nRows |-> nRows, nCols |-> nCols, data |-> [i \in 0 .. nRows * nCols - 1 |-> 0]]

\* Every matrix of the given shape whose elements come from vals.
MatricesOf(nRows, nCols, vals) ==
    { [nRows |-> nRows, nCols |-> nCols, data |-> d] :
        d \in [0 .. nRows * nCols - 1 -> vals] }

\* operator()(row, col): *(data_ + row * nCols_ + col)
At(m, row, col) == m.data[row * m.nCols + col]

Thrown(op, what) == [op |-> op, status |-> "error", what |-> what]

----------------------------------------------------------------------------
(* transposeMemoryInPlace: the cycle-following permutation. *)

\* std::swap(*(first + a), *cycle)
Swap(buf, a, b) == [buf EXCEPT ![a] = buf[b], ![b] = buf[a]]

\* The do { ... } while ((first + a) != cycle) loop of one cycle.
RECURSIVE FollowCycle(_, _, _, _, _, _)
FollowCycle(buf, visited, a, cycle, n, mn1) ==
    LET a2 == IF a = mn1 THEN mn1 ELSE (n * a) % mn1
        buf2 == Swap(buf, a2, cycle)
        visited2 == [visited EXCEPT ![a2] = TRUE]
    IN  IF a2 # cycle
        THEN FollowCycle(buf2, visited2, a2, cycle, n, mn1)
        ELSE [buf |-> buf2, visited |-> visited2]

\* The while (++cycle != last) loop; cycle is the index before the increment.
RECURSIVE CycleLoop(_, _, _, _, _, _)
CycleLoop(buf, visited, cycle, size, n, mn1) ==
    LET next == cycle + 1
    IN  IF next = size THEN buf
        ELSE IF visited[next] THEN CycleLoop(buf, visited, next, size, n, mn1)
        ELSE LET done == FollowCycle(buf, visited, next, next, n, mn1)
             IN  CycleLoop(done.buf, done.visited, next, size, n, mn1)

\* transposeMemoryInPlace walking the cycles of the row count instead of the
\* column count (the call passing nRows_ for m).
transposeMemoryInPlace_rowsForCols(buf, size, m) ==
    LET mn1 == size - 1
        visited == [i \in 0 .. size - 1 |-> FALSE]
    IN  CycleLoop(buf, visited, 0, size, m, mn1)

\* transposeMemoryInPlace(first, last, m) on a buffer of size = last - first >= 1.
transposeMemoryInPlace(buf, size, m) ==
    LET mn1 == size - 1
        n == size \div m
        visited == [i \in 0 .. size - 1 |-> FALSE]
    IN  CycleLoop(buf, visited, 0, size, n, mn1)

\* transposeInPlace without the std::swap(nCols_, nRows_).
transposeInPlace_keepsShape(m) ==
    [nRows |-> m.nRows, nCols |-> m.nCols,
     data |-> transposeMemoryInPlace(m.data, m.nRows * m.nCols, m.nCols)]

\* Matrix::transposeInPlace: permute the buffer, then swap nCols_ and nRows_.
transposeInPlace(m) ==
    [nRows |-> m.nCols, nCols |-> m.nRows,
     data |-> transposeMemoryInPlace(m.data, m.nRows * m.nCols, m.nCols)]

\* Matrix::clone: a new nRows x nCols matrix with the elements copied.
clone(m) ==
    [Matrix(m.nRows, m.nCols) EXCEPT !.data = [i \in 0 .. m.nRows * m.nCols - 1 |-> m.data[i]]]

\* Matrix::transpose: transposeInPlace on a clone.
transpose(m) == transposeInPlace(clone(m))

----------------------------------------------------------------------------
(* Precondition checks: each returns TRUE when the code throws. *)

\* assertSquare throws when nRows_ != nCols_.
assertSquare(m) == m.nRows # m.nCols

\* assertSameSize comparing the row counts only.
assertSameSize_rowsOnly(m, o) == m.nRows # o.nRows

\* assertSameSize throws when the dimensions differ.
assertSameSize(m, o) == m.nRows # o.nRows \/ m.nCols # o.nCols

\* The default threshold of assertSymmetric, 1e-10: one unit of the scale.
SymmetricThreshold == 1

\* The default threshold of isNearZero, 1e-10: one unit of the scale.
NearZeroThreshold == 1

\* assertSymmetric throws when the matrix is not square or when some pair
\* below the diagonal differs from its mirror image by more than threshold.
assertSymmetric(m, threshold) ==
    \/ assertSquare(m)
    \/ \E row \in 0 .. m.nRows - 1 : \E col \in 0 .. row - 1 :
           Abs(m.data[row * m.nCols + col] - m.data[col * m.nCols + row]) > threshold

\* isNearZero: no element has an absolute value above threshold.
isNearZero(m, threshold) ==
    ~ \E i \in 0 .. m.nRows * m.nCols - 1 : Abs(m.data[i]) > threshold

----------------------------------------------------------------------------
(* multiply, almostEquals, dot. *)

\* The loops of multiply with = in place of += in the innermost statement.
RECURSIVE MultiplyLoop_assigns(_, _, _, _, _, _, _)
MultiplyLoop_assigns(m, o, product, output, row, col, link) ==
    IF row >= m.nRows THEN product
    ELSE IF col >= o.nCols THEN MultiplyLoop_assigns(m, o, product, output, row + 1, 0, 0)
    ELSE IF link >= m.nCols THEN MultiplyLoop_assigns(m, o, product, output + 1, row, col + 1, 0)
    ELSE MultiplyLoop_assigns(m, o,
             [product EXCEPT ![output] =
                 m.data[row * m.nCols + link] * o.data[link * o.nCols + col]],
             output, row, col, link + 1)

\* The three nested loops of multiply; output is the offset of the pointer
\* that walks the product buffer.
RECURSIVE MultiplyLoop(_, _, _, _, _, _, _)
MultiplyLoop(m, o, product, output, row, col, link) ==
    IF row >= m.nRows THEN product
    ELSE IF col >= o.nCols THEN MultiplyLoop(m, o, product, output, row + 1, 0, 0)
    ELSE IF link >= m.nCols THEN MultiplyLoop(m, o, product, output + 1, row, col + 1, 0)
    ELSE MultiplyLoop(m, o,
             [product EXCEPT ![output] =
                 @ + m.data[row * m.nCols + link] * o.data[link * o.nCols + col]],
             output, row, col, link + 1)

\* Matrix::multiply (and operator*).
multiply(m, o) ==
    IF m.nCols # o.nRows
    THEN Thrown("multiply", "Attempting to multiply matrices with incompatible dimensions.")
    ELSE [op |-> "multiply", status |-> "ok",
          value |-> [Matrix(m.nRows, o.nCols) EXCEPT
                        !.data = MultiplyLoop(m, o, Matrix(m.nRows, o.nCols).data, 0, 0, 0, 0)]]

\* Matrix::almostEquals, the floating point version.
almostEquals(m, o, tolerance) ==
    IF assertSameSize(m, o)
    THEN Thrown("almostEquals", "Attepting to compare matrices of different sizes!")
    ELSE [op |-> "almostEquals", status |-> "ok",
          value |-> \A i \in 0 .. m.nRows * m.nCols - 1 :
                        /\ m.data[i] - o.data[i] < tolerance
                        /\ m.data[i] - o.data[i] > 0 - tolerance]

\* std::inner_product over the two buffers, from index i on.
RECURSIVE InnerProduct(_, _, _, _, _)
InnerProduct(a, b, i, size, acc) ==
    IF i >= size THEN acc ELSE InnerProduct(a, b, i + 1, size, acc + a[i] * b[i])

\* Matrix::dot.
dot(m, o) ==
    IF assertSameSize(m, o)
    THEN Thrown("dot", "Attepting to compare matrices of different sizes!")
    ELSE [op |-> "dot", status |-> "ok",
          value |-> InnerProduct(m.data, o.data, 0, m.nRows * m.nCols, 0)]

----------------------------------------------------------------------------
(* The eigensolver collaborator (LapackWrapper<Real>::diagonalizer()).     *)
(* An answer holds the status of the workspace query (queryInfo), whether  *)
(* the scratch vector sized from the query could be allocated (alloc), the *)
(* status of the decomposition (info) and the three output buffers.  The   *)
(* k-th eigenvector is the k-th run of N values of evecs.                  *)

QueryInfos == {-1, 0}

Infos == {-1, 0, 1}

EigReals == {0, 1, 2}

EigImags == {0, 2}

\* Buffers whose N vectors are the N unit vectors, rotated by s places.
UnitVectorBuffers(N) ==
    { [i \in 0 .. N * N - 1 |-> IF i % N = ((i \div N) + s) % N THEN 1 ELSE 0] :
        s \in 0 .. N - 1 }

Answer(queryInfo, alloc, info, evalsReal, evalsImag, evecs) ==
    [called |-> TRUE, queryInfo |-> queryInfo, alloc |-> alloc, info |-> info,
     evalsReal |-> evalsReal, evalsImag |-> evalsImag, evecs |-> evecs]

\* A failed call leaves the zero-initialised output buffers of diagonalize.
FailedAnswers(N) ==
    { Answer(q, a, i, Matrix(N, 1).data, Matrix(N, 1).data, Matrix(N, N).data) :
        q \in QueryInfos, a \in {"ok", "throws"}, i \in Infos \ {0} }

SolverAnswers(N) ==
    { a \in FailedAnswers(N) : a.queryInfo # 0 \/ a.alloc = "ok" }
    \cup
    { Answer(q, "ok", 0, re, im, ev) :
        q \in QueryInfos, re \in [0 .. N - 1 -> EigReals],
        im \in [0 .. N - 1 -> EigImags], ev \in UnitVectorBuffers(N) }

\* A handful of answers, for the calls whose claims do not turn on them.
FewAnswers(N) ==
    { a \in SolverAnswers(N) :
        /\ a.queryInfo = 0
        /\ a.info \in {0, 1}
        /\ \A k \in 0 .. N - 1 : a.evalsImag[k] = 0 /\ a.evalsReal[k] = a.evalsReal[0]
        /\ \A i \in 0 .. N * N - 1 : a.evecs[i] = IF i % N = i \div N THEN 1 ELSE 0 }

\* std::sort on the eigenTuples, ordered by operator< on valueReal: any
\* arrangement in which no element is less than an earlier one (the sort is
\* not stable).  perm[i] is the original index of the tuple placed at i.
StdSort(evalsReal, N) ==
    { perm \in Permutations(0 .. N - 1) :
        \A i \in 0 .. N - 1 : \A j \in i + 1 .. N - 1 :
            ~ (evalsReal[perm[j]] < evalsReal[perm[i]]) }

\* diagonalize without the std::reverse for SortOrder::Descending.
Reverse_skipped(perm, N) == perm

\* std::reverse
Reverse(perm, N) == [i \in 0 .. N - 1 |-> perm[N - 1 - i]]

SortOrders == {"Ascending", "Descending"}

\* diagonalize sorting the eigenvalues but copying the eigenvectors back in
\* the order the eigensolver gave them.
diagonalize_vectorsInSolverOrder(m, order, answer, perm) ==
    IF m.nRows # m.nCols
    THEN Thrown("diagonalize", "Attempting to diagonalize a non-square matrix.")
    ELSE IF answer.alloc = "throws"
    THEN Thrown("diagonalize", "std::vector<Real> work(scratchSize)")
    ELSE IF answer.info # 0
    THEN Thrown("diagonalize", "Something went wrong during diagonalization!")
    ELSE LET N == m.nRows
             eigenTuples == IF order = "Descending" THEN Reverse(perm, N) ELSE perm
             evalsReal == [Matrix(N, 1) EXCEPT
                              !.data = [val \in 0 .. N - 1 |-> answer.evalsReal[eigenTuples[val]]]]
             evalsImag == [Matrix(N, 1) EXCEPT
                              !.data = [val \in 0 .. N - 1 |-> answer.evalsImag[eigenTuples[val]]]]
             evecs == transposeInPlace([Matrix(N, N) EXCEPT !.data = answer.evecs])
         IN  [op |-> "diagonalize", status |-> "ok",
              evalsReal |-> evalsReal, evalsImag |-> evalsImag, evecs |-> evecs]

\* Matrix::diagonalize.  perm is the arrangement std::sort produced.
diagonalize(m, order, answer, perm) ==
    IF m.nRows # m.nCols
    THEN Thrown("diagonalize", "Attempting to diagonalize a non-square matrix.")
    ELSE IF answer.alloc = "throws"
    THEN Thrown("diagonalize", "std::vector<Real> work(scratchSize)")
    ELSE IF answer.info # 0
    THEN Thrown("diagonalize", "Something went wrong during diagonalization!")
    ELSE LET N == m.nRows
             eigenTuples == IF order = "Descending" THEN Reverse(perm, N) ELSE perm
             evalsReal == [Matrix(N, 1) EXCEPT
                              !.data = [val \in 0 .. N - 1 |-> answer.evalsReal[eigenTuples[val]]]]
             evalsImag == [Matrix(N, 1) EXCEPT
                              !.data = [val \in 0 .. N - 1 |-> answer.evalsImag[eigenTuples[val]]]]
             cloneBuf == [i \in 0 .. N * m.nCols - 1 |->
                              answer.evecs[eigenTuples[i \div m.nCols] * N + (i % m.nCols)]]
             evecs == transposeInPlace([Matrix(N, N) EXCEPT !.data = cloneBuf])
         IN  [op |-> "diagonalize", status |-> "ok",
              evalsReal |-> evalsReal, evalsImag |-> evalsImag, evecs |-> evecs]

----------------------------------------------------------------------------
(* inverse: the closed form for 3 x 3, the spectral decomposition otherwise. *)

\* The dimension inverse() treats with the closed form.
ClosedFormDim == 3

\* The determinant as inverse() computes it from data_[0..8].
Determinant(d) ==
    d[0] * (d[4] * d[8] - d[7] * d[5]) - d[1] * (d[3] * d[8] - d[5] * d[6])
        + d[2] * (d[3] * d[7] - d[4] * d[6])

\* The numerators with the two products of element 5 exchanged.
Cofactors_exchanged(d) ==
    [i \in 0 .. 8 |->
        CASE i = 0 -> d[4] * d[8] - d[7] * d[5]
          [] i = 1 -> d[2] * d[7] - d[1] * d[8]
          [] i = 2 -> d[1] * d[5] - d[2] * d[4]
          [] i = 3 -> d[5] * d[6] - d[3] * d[8]
          [] i = 4 -> d[0] * d[8] - d[2] * d[6]
          [] i = 5 -> d[0] * d[5] - d[3] * d[2]
          [] i = 6 -> d[3] * d[7] - d[6] * d[4]
          [] i = 7 -> d[6] * d[1] - d[0] * d[7]
          [] i = 8 -> d[0] * d[4] - d[3] * d[1]]

\* The nine numerators inverse() multiplies by determinantInverse.
Cofactors(d) ==
    [i \in 0 .. 8 |->
        CASE i = 0 -> d[4] * d[8] - d[7] * d[5]
          [] i = 1 -> d[2] * d[7] - d[1] * d[8]
          [] i = 2 -> d[1] * d[5] - d[2] * d[4]
          [] i = 3 -> d[5] * d[6] - d[3] * d[8]
          [] i = 4 -> d[0] * d[8] - d[2] * d[6]
          [] i = 5 -> d[3] * d[2] - d[0] * d[5]
          [] i = 6 -> d[3] * d[7] - d[6] * d[4]
          [] i = 7 -> d[6] * d[1] - d[0] * d[7]
          [] i = 8 -> d[0] * d[4] - d[3] * d[1]]

\* The product of the values of f over 0 .. n-1 except index skip.
RECURSIVE ProductExcept(_, _, _)
ProductExcept(f, n, skip) ==
    IF n = 0 THEN 1
    ELSE (IF n - 1 = skip THEN 1 ELSE f[n - 1]) * ProductExcept(f, n - 1, skip)

\* Matrix::applyOperation with the operation element = 1 / element.  The
\* returned matrix is value / den element by element: den is the product of
\* the eigenvalues, and row `row` of evecsT is scaled by den / eigenvalue.
\* den = 0 stands for a division by zero (infinite or NaN elements).
applyOperation(m, answer, perm) ==
    IF assertSquare(m)
    THEN Thrown("inverse", "Attepting to perform a square matrix operation on a non-square matrix!")
    ELSE IF assertSymmetric(m, SymmetricThreshold)
    THEN Thrown("inverse", "Unexpected non-symmetric matrix found.")
    ELSE LET eigenPairs == diagonalize(m, "Ascending", answer, perm)
         IN  IF eigenPairs.status = "error"
             THEN Thrown("inverse", eigenPairs.what)
             ELSE IF ~ isNearZero(eigenPairs.evalsImag, NearZeroThreshold)
             THEN Thrown("inverse",
                      "Unexpected complex eigenvalues encountered when applying operator to Matrix.")
             ELSE LET evalsReal == eigenPairs.evalsReal.data
                      evecs == eigenPairs.evecs
                      evecsT == transpose(evecs)
                      scaled == [evecsT EXCEPT !.data =
                                    [i \in 0 .. m.nRows * m.nCols - 1 |->
                                        evecsT.data[i]
                                            * ProductExcept(evalsReal, m.nRows, i \div m.nCols)]]
                  IN  [op |-> "inverse", status |-> "ok",
                       value |-> multiply(evecs, scaled).value,
                       den |-> ProductExcept(evalsReal, m.nRows, m.nRows)]

\* Matrix::inverse.  The returned matrix is value / den element by element.
inverse(m, answer, perm) ==
    IF assertSquare(m)
    THEN Thrown("inverse", "Attepting to perform a square matrix operation on a non-square matrix!")
    ELSE IF m.nRows = ClosedFormDim
    THEN [op |-> "inverse", status |-> "ok",
          value |-> [Matrix(m.nRows, m.nRows) EXCEPT !.data = Cofactors(m.data)],
          den |-> Determinant(m.data)]
    ELSE applyOperation(m, answer, perm)

\* Whether inverse() gets as far as calling the eigensolver.
InverseCallsSolver(m) ==
    ~ assertSquare(m) /\ m.nRows # ClosedFormDim /\ ~ assertSymmetric(m, SymmetricThreshold)

----------------------------------------------------------------------------
(* The calls on a Matrix object.  Each action is one member function call: *)
(* ret records what it returned or threw, other its argument, lapack the   *)
(* answer of the eigensolver if the call reached it.                       *)

Running == [state |-> "running", exitCode |-> 0, calls |-> 0]

\* The variables a Matrix call leaves as a given Init set them.
MatrixInit ==
    /\ other = NoArg
    /\ ret = NoCall
    /\ lapack = NoLapack
    /\ process = Running
    /\ stderr = <<>>
    /\ heap = NoHeap
    /\ frame = NoFrame

\* m.transposeInPlace(): mutates the receiver, returns nothing.  The call
\* record keeps the receiver as it was before the call.
TransposeInPlace ==
    /\ self' = transposeInPlace(self)
    /\ ret' = [op |-> "transposeInPlace", status |-> "ok", before |-> self]
    /\ other' = NoArg
    /\ lapack' = NoLapack
    /\ UNCHANGED <<process, stderr, heap, frame>>

\* m.transpose(): returns a transposed copy.
Transpose ==
    /\ ret' = [op |-> "transpose", status |-> "ok", value |-> transpose(self)]
    /\ other' = NoArg
    /\ lapack' = NoLapack
    /\ UNCHANGED <<self, process, stderr, heap, frame>>

\* m.multiply(o), m * o
Multiply(Others) ==
    /\ \E o \in Others :
           /\ ret' = multiply(self, o)
           /\ other' = o
    /\ lapack' = NoLapack
    /\ UNCHANGED <<self, process, stderr, heap, frame>>

Tolerances == {1, 2}

\* m.almostEquals(o, tolerance)
AlmostEquals(Others) ==
    /\ \E o \in Others, tolerance \in Tolerances :
           /\ ret' = almostEquals(self, o, tolerance)
           /\ other' = o
    /\ lapack' = NoLapack
    /\ UNCHANGED <<self, process, stderr, heap, frame>>

\* m.dot(o)
Dot(Others) ==
    /\ \E o \in Others :
           /\ ret' = dot(self, o)
           /\ other' = o
    /\ lapack' = NoLapack
    /\ UNCHANGED <<self, process, stderr, heap, frame>>

\* The arrangements std::sort may leave, when the call gets to sorting.
Arrangements(answer, N) ==
    IF answer.called /\ answer.alloc = "ok" /\ answer.info = 0
    THEN StdSort(answer.evalsReal, N)
    ELSE {<<>>}

\* m.diagonalize(order); the eigensolver, if reached, answers with one of Answers.
Diagonalize(Answers) ==
    /\ \E order \in SortOrders :
       \E answer \in (IF assertSquare(self) THEN {NoLapack} ELSE Answers) :
       \E perm \in Arrangements(answer, self.nRows) :
           /\ ret' = diagonalize(self, order, answer, perm)
           /\ other' = [kind |-> "order", order |-> order]
           /\ lapack' = answer
    /\ UNCHANGED <<self, process, stderr, heap, frame>>

\* m.inverse(); the eigensolver, if reached, answers with one of Answers.
Inverse(Answers) ==
    /\ \E answer \in (IF InverseCallsSolver(self) THEN Answers ELSE {NoLapack}) :
       \E perm \in Arrangements(answer, self.nRows) :
           /\ ret' = inverse(self, answer, perm)
           /\ lapack' = answer
    /\ other' = NoArg
    /\ UNCHANGED <<self, process, stderr, heap, frame>>

----------------------------------------------------------------------------
(* Specifications.  Each draws the receiver from a bounded set of matrices *)
(* and then makes calls on it.                                             *)

Shapes(maxDim) == (1 .. maxDim) \X (1 .. maxDim)

\* No call has been made on the receiver yet.  The const member functions
\* leave the receiver as it is, so the specifications that only make such
\* calls make one call on each receiver they draw.
Uncalled == ret = NoCall

\* Transposition of every 0/1 matrix of up to MaxDim rows and columns.
InitTranspose ==
    /\ \E shape \in Shapes(MaxDim) : self \in MatricesOf(shape[1], shape[2], Bits)
    /\ MatrixInit

NextTranspose == TransposeInPlace \/ Transpose

SpecTranspose == InitTranspose /\ [][NextTranspose]_vars

\* Products of every pair of 0/1 matrices of up to MaxOperandDim rows and columns.
Operands == UNION { MatricesOf(shape[1], shape[2], Bits) : shape \in Shapes(MaxOperandDim) }

InitMultiply ==
    /\ self \in Operands
    /\ MatrixInit

NextMultiply == Uncalled /\ Multiply(Operands)

SpecMultiply == InitMultiply /\ [][NextMultiply]_vars

\* Inverses: every 3 x 3 matrix over InvVals, the matrix of the specification's
\* scenario, and the smaller shapes, which take the spectral path.
InvVals == {-1, 0, 1}

ScenarioMatrix ==
    [nRows |-> 3, nCols |-> 3,
     data |-> [i \in 0 .. 8 |-> <<2, 0, 1, 3, 1, 0, 0, 4, 1>>[i + 1]]]

InitInverse ==
    /\ \/ self \in MatricesOf(ClosedFormDim, ClosedFormDim, InvVals)
       \/ self = ScenarioMatrix
       \/ \E shape \in Shapes(MaxOperandDim) : self \in MatricesOf(shape[1], shape[2], InvVals)
    /\ MatrixInit

NextInverse == Uncalled /\ Inverse(SolverAnswers(self.nRows))

SpecInverse == InitInverse /\ [][NextInverse]_vars

\* Diagonalizations: a freshly constructed matrix of each shape, and every
\* answer of the eigensolver.
InitDiagonalize ==
    /\ \E shape \in Shapes(MaxEigDim) : self = Matrix(shape[1], shape[2])
    /\ MatrixInit

NextDiagonalize == Uncalled /\ Diagonalize(SolverAnswers(self.nRows))

SpecDiagonalize == InitDiagonalize /\ [][NextDiagonalize]_vars

\* Every call, on receivers over SelfVals, with freshly constructed arguments
\* of each shape and a handful of solver answers.
SelfVals == {0, 2}

ShapeOperands == { Matrix(shape[1], shape[2]) : shape \in Shapes(MaxOperandDim) }

Init ==
    /\ \E shape \in Shapes(MaxOperandDim) : self \in MatricesOf(shape[1], shape[2], SelfVals)
    /\ MatrixInit

\* The receiver is as Init or a transposeInPlace() left it.  A const member
\* function leaves the receiver as it is, so after one the only call that
\* leads anywhere new is transposeInPlace().
Settled == ret.op \in {"none", "transposeInPlace"}

Next ==
    \/ TransposeInPlace
    \/ Settled /\ Transpose
    \/ Settled /\ Multiply(ShapeOperands)
    \/ Settled /\ AlmostEquals(ShapeOperands)
    \/ Settled /\ Dot(ShapeOperands)
    \/ Settled /\ Diagonalize(FewAnswers(self.nRows))
    \/ Settled /\ Inverse(FewAnswers(self.nRows))

Spec == Init /\ [][Next]_vars

----------------------------------------------------------------------------
(* The C entry points.  Each wraps one operation of the PME instance in a  *)
(* try block with two handlers.  What the wrapped operation does is an     *)
(* input: it returns a value, throws a std::runtime_error with a message,  *)
(* or throws anything else.                                                *)

\* The status every handler passes to exit().
ExitFailure == 1

Messages ==
    {"Attempting to multiply matrices with incompatible dimensions.",
     "Something went wrong during diagonalization!"}

Outcomes(Values) ==
    { [kind |-> "value", value |-> v] : v \in Values }
    \cup { [kind |-> "runtime_error", what |-> w] : w \in Messages }
    \cup { [kind |-> "other"] }

\* An entry point without the catch (...) handler.
tryCatch_noCatchAll(outcome, unknown) ==
    CASE outcome.kind = "value" ->
             [status |-> "returned", value |-> outcome.value, diagnostics |-> <<>>, exitCode |-> 0]
      [] outcome.kind = "runtime_error" ->
             [status |-> "exited", diagnostics |-> <<outcome.what>>, exitCode |-> ExitFailure]
      [] outcome.kind = "other" ->
             [status |-> "propagated", diagnostics |-> <<>>, exitCode |-> 0]

\* try { return <operation>; }
\* catch (std::runtime_error& e) { std::cerr << e.what() << std::endl; exit(1); }
\* catch (...) { std::cerr << <unknown> << std::endl; exit(1); }
tryCatch(outcome, unknown) ==
    CASE outcome.kind = "value" ->
             [status |-> "returned", value |-> outcome.value, diagnostics |-> <<>>, exitCode |-> 0]
      [] outcome.kind = "runtime_error" ->
             [status |-> "exited", diagnostics |-> <<outcome.what>>, exitCode |-> ExitFailure]
      [] outcome.kind = "other" ->
             [status |-> "exited", diagnostics |-> <<unknown>>, exitCode |-> ExitFailure]

\* A call of the entry point `name` by a running process.
EntryPoint(name, Values, unknown) ==
    /\ process.state = "running"
    /\ process.calls < MaxCalls
    /\ \E outcome \in Outcomes(Values) :
           LET done == tryCatch(outcome, unknown)
           IN  /\ ret' = [op |-> name, status |-> done.status, outcome |-> outcome]
                           @@ (IF done.status = "returned"
                               THEN [value |-> done.value] ELSE <<>>)
               /\ stderr' = stderr \o done.diagnostics
               /\ process' = [state |-> IF done.status = "exited" THEN "exited" ELSE "running",
                              exitCode |-> done.exitCode,
                              calls |-> process.calls + 1]
    /\ UNCHANGED <<self, other, lapack, heap, frame>>

Void == {"void"}

Energies == {0, 1}

helpme_createD ==
    EntryPoint("helpme_createD", {"PMEInstanceD"}, "An unknown error occured in helpme_createD")

helpme_createF ==
    EntryPoint("helpme_createF", {"PMEInstanceF"}, "An unknown error occured in helpme_createF")

helpme_setupD ==
    EntryPoint("helpme_setupD", Void, "An unknown error occured in helpme_setupD")

helpme_setupF ==
    EntryPoint("helpme_setupF", Void, "An unknown error occured in helpme_setupF")

helpme_set_lattice_vectorsD ==
    EntryPoint("helpme_set_lattice_vectorsD", Void,
               "An unknown error occured in helpme_set_lattice_vectorsD")

helpme_set_lattice_vectorsF ==
    EntryPoint("helpme_set_lattice_vectorsF", Void,
               "An unknown error occured in helpme_set_lattice_vectorsF")

helpme_compute_EF_recD ==
    EntryPoint("helpme_compute_EF_recD", Energies, "An unknown error occured in helpme_run_pmeD")

helpme_compute_EF_recF ==
    EntryPoint("helpme_compute_EF_recF", Energies, "An unknown error occured in helpme_run_pmeF")

InitBoundary ==
    /\ self = Matrix(0, 0)
    /\ MatrixInit

NextBoundary ==
    \/ helpme_createD
    \/ helpme_createF
    \/ helpme_setupD
    \/ helpme_setupF
    \/ helpme_set_lattice_vectorsD
    \/ helpme_set_lattice_vectorsF
    \/ helpme_compute_EF_recD
    \/ helpme_compute_EF_recF

SpecBoundary == InitBoundary /\ [][NextBoundary]_vars

----------------------------------------------------------------------------
(* Matrix objects.  Where it matters which buffer a call reads or writes,  *)
(* a Matrix is the object the class declares: nRows_, nCols_, the vector   *)
(* allocatedData_ and the pointer data_.  A vector and a pointer are named *)
(* by the buffer they hold or point to, and heap maps every buffer to its  *)
(* elements.  An owning Matrix points to its own vector; a borrowing one   *)
(* has an empty vector and points to memory of the caller.                 *)

\* The vectors and arrays of the model: those of the receiver, of the
\* argument and of the caller, and one for each Matrix a call declares.
Buffers ==
    {"self", "other", "caller", "newMatrix", "matrixInverse", "product",
     "evalsReal", "evalsImag", "evecs", "clone", "ret"}

\* std::vector<Real>(n, 0)
Zeros(n) == [i \in 0 .. n - 1 |-> 0]

\* allocatedData_.size()
Size(vec) == Cardinality(DOMAIN vec)

EmptyHeap == [b \in Buffers |-> Zeros(0)]

Owning(m) == m.data_ = m.allocatedData_

\* The matrix an object shows through data_: what operator() reads.
View(h, m) ==
    [nRows |-> m.nRows, nCols |-> m.nCols,
     data |-> [i \in 0 .. m.nRows * m.nCols - 1 |-> h[m.data_][i]]]

\* Matrix(size_t nRows, size_t nCols), declared with the vector `name`.
MatrixOfDims(h, name, nRows, nCols) ==
    [status |-> "ok",
     heap |-> [h EXCEPT ![name] = Zeros(nRows * nCols)],
     value |-> [nRows |-> nRows, nCols |-> nCols, allocatedData_ |-> name, data_ |-> name]]

\* allocatedData_.insert(allocatedData_.end(), row.begin(), row.end())
Insert(vec, row) ==
    [i \in 0 .. Size(vec) + Len(row) - 1 |->
        IF i < Size(vec) THEN vec[i] ELSE row[i - Size(vec) + 1]]

\* The constructor's loop without the comparison of row.size() with nCols_.
RECURSIVE InsertRows_unchecked(_, _, _, _)
InsertRows_unchecked(vec, data, k, nCols) ==
    IF k > Len(data) THEN [status |-> "ok", vec |-> vec]
    ELSE InsertRows_unchecked(Insert(vec, data[k]), data, k + 1, nCols)

\* The constructor's loop over the rows of the list, from row k on.
RECURSIVE InsertRows(_, _, _, _)
InsertRows(vec, data, k, nCols) ==
    IF k > Len(data) THEN [status |-> "ok", vec |-> vec]
    ELSE IF Len(data[k]) # nCols
         THEN [status |-> "error", vec |-> vec]
         ELSE InsertRows(Insert(vec, data[k]), data, k + 1, nCols)

\* Matrix(std::initializer_list<std::initializer_list<Real>> data)
MatrixOfRows(h, name, data) ==
    LET nRows == Len(data)
        nCols == IF nRows # 0 THEN Len(data[1]) ELSE 0
        filled == InsertRows(Zeros(0), data, 1, nCols)
    IN  IF filled.status = "error"
        THEN [status |-> "error",
              what |-> "Inconsistent row dimensions in matrix specification.",
              heap |-> h]
        ELSE [status |-> "ok",
              heap |-> [h EXCEPT ![name] = filled.vec],
              value |-> [nRows |-> nRows, nCols |-> nCols,
                         allocatedData_ |-> name, data_ |-> name]]

\* Matrix(std::initializer_list<Real> data): a column vector.
MatrixOfColumn(h, name, data) ==
    [status |-> "ok",
     heap |-> [h EXCEPT ![name] = [i \in 0 .. Len(data) - 1 |-> data[i + 1]]],
     value |-> [nRows |-> Len(data), nCols |-> 1, allocatedData_ |-> name, data_ |-> name]]

\* Matrix(Real* ptr, size_t nRows, size_t nCols): the vector `name` stays empty.
MatrixBorrowing(h, name, ptr, nRows, nCols) ==
    [status |-> "ok",
     heap |-> [h EXCEPT ![name] = Zeros(0)],
     value |-> [nRows |-> nRows, nCols |-> nCols, allocatedData_ |-> name, data_ |-> ptr]]

\* setConstant: std::fill(begin(), end(), value)
setConstant(h, m, value) ==
    [h EXCEPT ![m.data_] =
        [i \in DOMAIN @ |-> IF i < m.nRows * m.nCols THEN value ELSE @[i]]]

\* setZero: setConstant(0)
setZero(h, m) == setConstant(h, m, 0)

\* The unary operations handed to applyOperationToEachElement.
Functions == {"negate", "increment"}

\* function(element)
Call(function, element) ==
    CASE function = "negate" -> 0 - element
      [] function = "increment" -> element + 1

\* applyOperationToEachElement: std::for_each(begin(), end(), function)
applyOperationToEachElement(h, m, function) ==
    [h EXCEPT ![m.data_] =
        [i \in DOMAIN @ |-> IF i < m.nRows * m.nCols THEN Call(function, @[i]) ELSE @[i]]]

----------------------------------------------------------------------------
(* sliceIterator: begin_, end_ and ptr_ are offsets into the buffer the    *)
(* matrix points to, stride_ the step of operator++.                       *)

\* row(r): sliceIterator(data_ + r * nCols_, data_ + (r + 1) * nCols_, 1)
row(m, r) ==
    [buf |-> m.data_, begin_ |-> r * m.nCols, end_ |-> (r + 1) * m.nCols, stride_ |-> 1]

\* col(c) ending at data_ + nRows_ * nCols_, whatever the column.
col_endOfBuffer(m, c) ==
    [buf |-> m.data_, begin_ |-> c, end_ |-> m.nRows * m.nCols, stride_ |-> m.nCols]

\* col(c): sliceIterator(data_ + c, data_ + nRows_ * nCols_ + c, nCols_)
col(m, c) ==
    [buf |-> m.data_, begin_ |-> c, end_ |-> m.nRows * m.nCols + c, stride_ |-> m.nCols]

\* size(): std::distance(begin_, end_) / stride_
size(s) == (s.end_ - s.begin_) \div s.stride_

\* for (auto& element : *this): the offsets operator* is applied to, from
\* ptr_ on, with operator++ adding stride_ until ptr_ equals end_.  The loop
\* does not end when ptr_ steps over end_ or does not move; the model stops
\* following it at the first offset outside the buffer.
RECURSIVE Iterate(_, _, _)
Iterate(s, ptr, limit) ==
    IF ptr = s.end_ THEN [visited |-> <<>>, terminated |-> TRUE]
    ELSE IF ptr >= limit \/ s.stride_ = 0 THEN [visited |-> <<>>, terminated |-> FALSE]
    ELSE LET rest == Iterate(s, ptr + s.stride_, limit)
         IN  [visited |-> <<ptr>> \o rest.visited, terminated |-> rest.terminated]

\* The iteration of a slice from begin().
Elements(h, s) == Iterate(s, s.begin_, Size(h[s.buf]))

\* Real invVal = 1 / val, exact for the divisors of the model, 1 and -1.
Reciprocal(val) == 1 \div val

\* The body of the loop of each compound assignment with a scalar.
Update(kind, element, val) ==
    CASE kind = "operator*=" -> element * val
      [] kind = "operator/=" -> element * Reciprocal(val)
      [] kind = "operator-=" -> element - val
      [] kind = "operator+=" -> element + val

\* The loop of a compound assignment over the offsets still to visit.
RECURSIVE ForEachElement(_, _, _, _)
ForEachElement(vec, visited, kind, val) ==
    IF visited = <<>> THEN vec
    ELSE ForEachElement([vec EXCEPT ![Head(visited)] = Update(kind, @, val)],
                        Tail(visited), kind, val)

\* operator*=(Real), operator/=(Real), operator-=(Real), operator+=(Real)
ScalarAssign(h, s, kind, val) ==
    [h EXCEPT ![s.buf] = ForEachElement(@, Elements(h, s).visited, kind, val)]

\* operator[](index): *(begin_ + index)
operatorIndex(h, s, index) == h[s.buf][s.begin_ + index]

\* assertSameSize(other) of a slice throws when the sizes differ.
sliceAssertSameSize(s, o) == size(s) # size(o)

\* assertContiguous letting every stride pass.
assertContiguous_anyStride(iter) == FALSE

\* assertContiguous(iter) throws when iter.stride_ != 1.
assertContiguous(iter) == iter.stride_ # 1

\* The checks the three operations between slices start with, in order.
SliceChecks(s, o) ==
    IF sliceAssertSameSize(s, o)
    THEN "Slice operations only supported for slices of the same size."
    ELSE IF assertContiguous(s) \/ assertContiguous(o)
    THEN "Slice operations called on operation that is only allowed for contiguous data."
    ELSE "ok"

\* [](const Real& a, const Real& b) { return a - b; } and { return a + b; }
Combine(kind, a, b) == IF kind \in {"operator-", "operator-="} THEN a - b ELSE a + b

\* std::transform(begin_, end_, other.begin_, out, f) from element i on: one
\* element after the other, each read when its turn comes.  The model stops
\* following the loop at the first offset outside a buffer.
RECURSIVE Transform(_, _, _, _, _, _, _)
Transform(h, s, o, outBuf, out, kind, i) ==
    IF s.begin_ + i = s.end_ THEN h
    ELSE IF \/ s.begin_ + i \notin DOMAIN h[s.buf]
            \/ o.begin_ + i \notin DOMAIN h[o.buf]
            \/ out + i \notin DOMAIN h[outBuf]
    THEN h
    ELSE Transform([h EXCEPT ![outBuf][out + i] =
                        Combine(kind, h[s.buf][s.begin_ + i], h[o.buf][o.begin_ + i])],
                   s, o, outBuf, out, kind, i + 1)

\* operator-(const sliceIterator& other): the difference in a new 1 x size() Matrix.
operatorMinus(h, s, o) ==
    IF SliceChecks(s, o) # "ok"
    THEN [status |-> "error", what |-> SliceChecks(s, o), heap |-> h]
    ELSE LET made == MatrixOfDims(h, "ret", 1, size(s))
         IN  [status |-> "ok",
              heap |-> Transform(made.heap, s, o, made.value.data_, 0, "operator-", 0),
              value |-> made.value]

\* operator-=(const sliceIterator& other), operator+=(const sliceIterator& other):
\* the result goes to begin_ of the left slice.
SliceAssign(h, s, o, kind) ==
    IF SliceChecks(s, o) # "ok"
    THEN [status |-> "error", what |-> SliceChecks(s, o), heap |-> h]
    ELSE [status |-> "ok", heap |-> Transform(h, s, o, s.buf, s.begin_, kind, 0)]

----------------------------------------------------------------------------
(* The calls on a Matrix object with its buffers.  self is the object,     *)
(* heap the buffers, process.calls the number of calls made on the object. *)

\* The storage of an object before its constructor has run.
NoMatrix == [kind |-> "none"]

\* The variables a call on an object leaves as the Init of its specification
\* set them.
ObjectInit ==
    /\ other = NoArg
    /\ ret = NoCall
    /\ lapack = NoLapack
    /\ process = Running
    /\ stderr = <<>>
    /\ frame = NoFrame

\* Calls mutating the receiver made on one object before the model stops.
MaxMutations == 2

\* The receiver is constructed and the process alive.
Mutable ==
    /\ self # NoMatrix
    /\ process.state = "running"
    /\ process.calls < MaxMutations

\* What the build may do with a transposeInPlace() whose behaviour the
\* language leaves undefined: the process dies, or the call returns.
UndefinedOutcomes == {"crashed", "returned"}

\* transposeInPlace() of an object with at least one element.
transposeInPlaceOn(h, m) ==
    LET done == transposeInPlace(View(h, m))
    IN  [heap |-> [h EXCEPT ![m.data_] =
                      [i \in DOMAIN @ |-> IF i \in DOMAIN done.data THEN done.data[i] ELSE @[i]]],
         value |-> [m EXCEPT !.nRows = done.nRows, !.nCols = done.nCols]]

\* Matrix<Real> m(nRows, nCols);
ConstructDims(Dims) ==
    /\ self = NoMatrix /\ ret = NoCall
    /\ \E nRows \in Dims, nCols \in Dims :
           LET made == MatrixOfDims(heap, "self", nRows, nCols)
           IN  /\ self' = made.value
               /\ heap' = made.heap
               /\ other' = [kind |-> "dims", nRows |-> nRows, nCols |-> nCols]
    /\ ret' = [op |-> "Matrix", status |-> "ok"]
    /\ UNCHANGED <<lapack, process, stderr, frame>>

\* Matrix<Real> m({{...}, ...}); an exception leaves no object.
ConstructRows(Lists) ==
    /\ self = NoMatrix /\ ret = NoCall
    /\ \E data \in Lists :
           LET made == MatrixOfRows(heap, "self", data)
           IN  /\ self' = (IF made.status = "ok" THEN made.value ELSE NoMatrix)
               /\ heap' = made.heap
               /\ ret' = (IF made.status = "ok"
                          THEN [op |-> "Matrix", status |-> "ok"]
                          ELSE Thrown("Matrix", made.what))
               /\ other' = [kind |-> "rows", data |-> data]
    /\ UNCHANGED <<lapack, process, stderr, frame>>

\* Matrix<Real> m({...});
ConstructColumn(Lists) ==
    /\ self = NoMatrix /\ ret = NoCall
    /\ \E data \in Lists :
           LET made == MatrixOfColumn(heap, "self", data)
           IN  /\ self' = made.value
               /\ heap' = made.heap
               /\ other' = [kind |-> "column", data |-> data]
    /\ ret' = [op |-> "Matrix", status |-> "ok"]
    /\ UNCHANGED <<lapack, process, stderr, frame>>

\* The frame of a call that mutates the receiver.
MutatorFrame ==
    /\ process' = [process EXCEPT !.calls = @ + 1]
    /\ UNCHANGED <<lapack, stderr, frame>>

\* m.setConstant(value)
SetConstant(Values) ==
    /\ Mutable
    /\ \E value \in Values :
           /\ heap' = setConstant(heap, self, value)
           /\ other' = [kind |-> "scalar", val |-> value]
    /\ ret' = [op |-> "setConstant", status |-> "ok"]
    /\ UNCHANGED self
    /\ MutatorFrame

\* m.setZero()
SetZero ==
    /\ Mutable
    /\ heap' = setZero(heap, self)
    /\ other' = NoArg
    /\ ret' = [op |-> "setZero", status |-> "ok"]
    /\ UNCHANGED self
    /\ MutatorFrame

\* m.applyOperationToEachElement(function)
ApplyOperationToEachElement ==
    /\ Mutable
    /\ \E function \in Functions :
           /\ heap' = applyOperationToEachElement(heap, self, function)
           /\ other' = [kind |-> "function", function |-> function]
    /\ ret' = [op |-> "applyOperationToEachElement", status |-> "ok"]
    /\ UNCHANGED self
    /\ MutatorFrame

\* m.transposeInPlace() on the object.  Without elements the call divides by
\* zero (no columns) or steps over the end of the empty buffer (no rows).
TransposeInPlaceOn ==
    /\ Mutable
    /\ IF self.nRows * self.nCols = 0
       THEN \E outcome \in UndefinedOutcomes :
               /\ self' = (IF outcome = "returned"
                           THEN [self EXCEPT !.nRows = self.nCols, !.nCols = self.nRows]
                           ELSE self)
               /\ heap' = heap
               /\ ret' = [op |-> "transposeInPlace", status |-> "undefined", outcome |-> outcome]
               /\ process' = [process EXCEPT !.calls = @ + 1,
                                             !.state = IF outcome = "crashed" THEN "crashed" ELSE @]
       ELSE /\ self' = transposeInPlaceOn(heap, self).value
            /\ heap' = transposeInPlaceOn(heap, self).heap
            /\ ret' = [op |-> "transposeInPlace", status |-> "ok"]
            /\ process' = [process EXCEPT !.calls = @ + 1]
    /\ other' = NoArg
    /\ UNCHANGED <<lapack, stderr, frame>>

\* The rows and columns of a matrix, each named by its axis and index.
Whichs(m) ==
    { [axis |-> "row", index |-> r] : r \in 0 .. m.nRows - 1 }
    \cup { [axis |-> "col", index |-> c] : c \in 0 .. m.nCols - 1 }

\* m.row(r) or m.col(c)
SliceOf(m, which) ==
    IF which.axis = "row" THEN row(m, which.index) ELSE col(m, which.index)

ScalarOps == {"operator*=", "operator/=", "operator-=", "operator+="}

\* The scalars of the compound assignments: the divisors are 1 and -1, whose
\* reciprocals are whole numbers.
ScalarsOf(kind) == IF kind = "operator/=" THEN {-1, 1} ELSE {2}

\* m.row(r) *= val, m.col(c) /= val, ... : the call record keeps what the
\* loop over the slice visited and what size() answers.
SliceScalarAssign(Kinds) ==
    /\ Mutable
    /\ \E which \in Whichs(self), kind \in Kinds :
       \E val \in ScalarsOf(kind) :
           LET s == SliceOf(self, which)
               loop == Elements(heap, s)
           IN  /\ heap' = ScalarAssign(heap, s, kind, val)
               /\ ret' = [op |-> kind, status |-> "ok", with |-> "scalar",
                          which |-> which, val |-> val,
                          visited |-> loop.visited, terminated |-> loop.terminated,
                          size |-> size(s)]
    /\ UNCHANGED <<self, other>>
    /\ MutatorFrame

\* The slices a slice of the receiver is combined with: the receiver's own
\* and those of the argument matrix, when there is one.
RightSlices ==
    { [of |-> "self", which |-> w] : w \in Whichs(self) }
    \cup (IF other = NoArg \/ other.kind # "matrix" THEN {}
          ELSE { [of |-> "other", which |-> w] : w \in Whichs(other.value) })

RightSlice(right) ==
    SliceOf(IF right.of = "self" THEN self ELSE other.value, right.which)

SliceOps == {"operator-=", "operator+="}

\* m.row(r) -= o.row(q), m.row(r) += o.col(c), ...
SliceSliceAssign(Kinds) ==
    /\ Mutable
    /\ \E which \in Whichs(self), right \in RightSlices, kind \in Kinds :
           LET done == SliceAssign(heap, SliceOf(self, which), RightSlice(right), kind)
           IN  /\ heap' = done.heap
               /\ ret' = (IF done.status = "ok"
                          THEN [op |-> kind, status |-> "ok"]
                          ELSE Thrown(kind, done.what))
                         @@ [with |-> "slice", which |-> which, right |-> right]
    /\ UNCHANGED <<self, other>>
    /\ MutatorFrame

\* m.row(r) - o.row(q): returns a Matrix.
SliceMinus ==
    /\ Mutable
    /\ \E which \in Whichs(self), right \in RightSlices :
           LET done == operatorMinus(heap, SliceOf(self, which), RightSlice(right))
           IN  /\ heap' = done.heap
               /\ ret' = (IF done.status = "ok"
                          THEN [op |-> "operator-", status |-> "ok", value |-> done.value]
                          ELSE Thrown("operator-", done.what))
                         @@ [with |-> "slice", which |-> which, right |-> right]
    /\ UNCHANGED <<self, other>>
    /\ MutatorFrame

\* m.row(r)[index], m.col(c)[index]
SliceIndex ==
    /\ Mutable
    /\ \E which \in Whichs(self) :
       \E index \in 0 .. size(SliceOf(self, which)) - 1 :
           ret' = [op |-> "operator[]", status |-> "ok", which |-> which, index |-> index,
                   value |-> operatorIndex(heap, SliceOf(self, which), index)]
    /\ UNCHANGED <<self, other, heap>>
    /\ MutatorFrame

----------------------------------------------------------------------------
(* The const member functions on objects: each declares the matrices it    *)
(* returns, writes through their data_, and hands them to the caller with  *)
(* their vectors (a return moves the vector, data_ keeps pointing to it).  *)

\* An owning Matrix object whose vector is `name`.
Object(name, nRows, nCols) ==
    [nRows |-> nRows, nCols |-> nCols, allocatedData_ |-> name, data_ |-> name]

\* The vectors of the locals of a call are gone when it returns or throws.
Release(h, names) == [b \in Buffers |-> IF b \in names THEN Zeros(0) ELSE h[b]]

\* clone() handing out a Matrix that points to the receiver's buffer, as a
\* member-wise copy of the object would.
cloneOn_sharesBuffer(h, m) ==
    LET newMatrix == MatrixOfDims(h, "newMatrix", m.nRows, m.nCols)
    IN  [heap |-> [newMatrix.heap EXCEPT !["newMatrix"] = View(h, m).data],
         value |-> [newMatrix.value EXCEPT !.data_ = m.data_]]

\* clone(): Matrix newMatrix = Matrix(nRows_, nCols_);
\*          std::copy(cbegin(), cend(), newMatrix.begin());
cloneOn(h, m) ==
    LET newMatrix == MatrixOfDims(h, "newMatrix", m.nRows, m.nCols)
    IN  [heap |-> [newMatrix.heap EXCEPT ![newMatrix.value.data_] =
                      [i \in DOMAIN @ |-> IF i < m.nRows * m.nCols THEN h[m.data_][i] ELSE @[i]]],
         value |-> newMatrix.value]

\* transpose(): Matrix copy = this->clone(); copy.transposeInPlace();
transposeOn(h, m) ==
    LET copy == cloneOn(h, m)
    IN  transposeInPlaceOn(copy.heap, copy.value)

\* multiply(other): the product is written through product.data_.
multiplyOn(h, m, o) ==
    LET done == multiply(View(h, m), View(h, o))
    IN  IF done.status = "error" THEN [ret |-> done, heap |-> h]
        ELSE LET product == MatrixOfDims(h, "product", m.nRows, o.nCols)
             IN  [ret |-> [done EXCEPT !.value = product.value],
                  heap |-> [product.heap EXCEPT ![product.value.data_] = done.value.data]]

\* diagonalize(order): the eigensolver is handed the vector `clone`, a copy
\* of the receiver's elements, and overwrites it; the eigenpairs are written
\* through the data_ of evalsReal, evalsImag and evecs.
diagonalizeOn(h, m, order, answer, perm) ==
    LET done == diagonalize(View(h, m), order, answer, perm)
        N == m.nRows
        declared == MatrixOfDims(MatrixOfDims(MatrixOfDims(h, "evalsReal", N, 1).heap,
                                              "evalsImag", N, 1).heap,
                                 "evecs", N, N).heap
        copied == [declared EXCEPT !["clone"] = View(h, m).data]
        solved == [copied EXCEPT !["clone"] = answer.evecs,
                                 !["evalsReal"] = answer.evalsReal,
                                 !["evalsImag"] = answer.evalsImag,
                                 !["evecs"] = answer.evecs]
        locals == {"evalsReal", "evalsImag", "evecs", "clone"}
    IN  IF N # m.nCols THEN [ret |-> done, heap |-> h]
        ELSE IF done.status = "error"
        THEN [ret |-> done,
              heap |-> Release(IF answer.alloc = "throws" THEN copied ELSE solved, locals)]
        ELSE [ret |-> [done EXCEPT !.evalsReal = Object("evalsReal", N, 1),
                                   !.evalsImag = Object("evalsImag", N, 1),
                                   !.evecs = Object("evecs", N, N)],
              heap |-> Release([solved EXCEPT !["evalsReal"] = done.evalsReal.data,
                                              !["evalsImag"] = done.evalsImag.data,
                                              !["evecs"] = done.evecs.data],
                               {"clone"})]

\* inverse(): matrixInverse is declared once the receiver is known to be
\* square and written in the closed form; the spectral path returns the
\* product of evecs and the scaled evecsT and lets matrixInverse go.
inverseOn(h, m, answer, perm) ==
    LET done == inverse(View(h, m), answer, perm)
        matrixInverse == MatrixOfDims(h, "matrixInverse", m.nRows, m.nRows)
    IN  IF done.status = "error" THEN [ret |-> done, heap |-> h]
        ELSE IF m.nRows = ClosedFormDim
        THEN [ret |-> [done EXCEPT !.value = matrixInverse.value],
              heap |-> [matrixInverse.heap EXCEPT ![matrixInverse.value.data_] = done.value.data]]
        ELSE LET product == MatrixOfDims(h, "product", m.nRows, m.nCols)
             IN  [ret |-> [done EXCEPT !.value = product.value],
                  heap |-> [product.heap EXCEPT ![product.value.data_] = done.value.data]]

\* m.clone()
CloneOn ==
    /\ ret' = [op |-> "clone", status |-> "ok", value |-> cloneOn(heap, self).value]
    /\ heap' = cloneOn(heap, self).heap
    /\ lapack' = NoLapack
    /\ UNCHANGED <<self, other, process, stderr, frame>>

\* m.transpose()
TransposeOn ==
    /\ ret' = [op |-> "transpose", status |-> "ok", value |-> transposeOn(heap, self).value]
    /\ heap' = transposeOn(heap, self).heap
    /\ lapack' = NoLapack
    /\ UNCHANGED <<self, other, process, stderr, frame>>

\* m.multiply(o), with the argument an owning matrix of the caller.
MultiplyOn(Others) ==
    /\ \E o \in Others :
           LET arg == [heap EXCEPT !["other"] = o.data]
               done == multiplyOn(arg, self, Object("other", o.nRows, o.nCols))
           IN  /\ ret' = done.ret
               /\ heap' = done.heap
               /\ other' = [kind |-> "matrix", value |-> Object("other", o.nRows, o.nCols)]
    /\ lapack' = NoLapack
    /\ UNCHANGED <<self, process, stderr, frame>>

\* m.diagonalize(order)
DiagonalizeOn(Answers) ==
    /\ \E order \in SortOrders :
       \E answer \in (IF self.nRows # self.nCols THEN {NoLapack} ELSE Answers) :
       \E perm \in Arrangements(answer, self.nRows) :
           LET done == diagonalizeOn(heap, self, order, answer, perm)
           IN  /\ ret' = done.ret
               /\ heap' = done.heap
               /\ other' = [kind |-> "order", order |-> order]
               /\ lapack' = answer
    /\ UNCHANGED <<self, process, stderr, frame>>

\* m.inverse()
InverseOn(Answers) ==
    /\ \E answer \in (IF InverseCallsSolver(View(heap, self)) THEN Answers ELSE {NoLapack}) :
       \E perm \in Arrangements(answer, self.nRows) :
           LET done == inverseOn(heap, self, answer, perm)
           IN  /\ ret' = done.ret
               /\ heap' = done.heap
               /\ lapack' = answer
    /\ UNCHANGED <<self, other, process, stderr, frame>>

----------------------------------------------------------------------------
(* Specifications on Matrix objects. *)

\* Row and column counts of the objects that are constructed, zero included.
Dims == 0 .. MaxOperandDim

\* The lists of rows: up to MaxOperandDim rows, each of any length in Dims,
\* equal or not; the element at row i, place j is 10 * i + j.
RowLists ==
    UNION { { [i \in 1 .. k |-> [j \in 1 .. lens[i] |-> 10 * i + j]] :
                lens \in [1 .. k -> Dims] } : k \in Dims }

\* The lists that make a column vector.
ColumnLists == { [j \in 1 .. n |-> j] : n \in Dims }

\* Construction of an owning Matrix in each of the three ways, then a
\* sequence of the calls that write its elements.
InitStorage ==
    /\ self = NoMatrix
    /\ heap = EmptyHeap
    /\ ObjectInit

NextStorage ==
    \/ ConstructDims(Dims)
    \/ ConstructRows(RowLists)
    \/ ConstructColumn(ColumnLists)
    \/ SetConstant({1})
    \/ SetZero
    \/ ApplyOperationToEachElement
    \/ SliceScalarAssign(ScalarOps)
    \/ SliceSliceAssign(SliceOps)
    \/ SliceMinus
    \/ TransposeInPlaceOn

SpecStorage == InitStorage /\ [][NextStorage]_vars

\* The list of rows of an nRows x nCols matrix whose element at row i,
\* place j is base + 10 * i + j.
Labelled(nRows, nCols, base) ==
    [i \in 1 .. nRows |-> [j \in 1 .. nCols |-> base + 10 * i + j]]

\* One call on a slice of a matrix with at least one row and one column;
\* the argument is a second matrix, whose slices the call may combine with
\* those of the first.
InitSlices ==
    /\ \E shape \in Shapes(MaxOperandDim), argShape \in Shapes(MaxOperandDim) :
           LET made == MatrixOfRows(EmptyHeap, "self", Labelled(shape[1], shape[2], 0))
               arg == MatrixOfRows(made.heap, "other", Labelled(argShape[1], argShape[2], 100))
           IN  /\ self = made.value
               /\ other = [kind |-> "matrix", value |-> arg.value]
               /\ heap = arg.heap
    /\ ret = NoCall
    /\ lapack = NoLapack
    /\ process = Running
    /\ stderr = <<>>
    /\ frame = NoFrame

NextSlices ==
    \/ Uncalled /\ SliceScalarAssign(ScalarOps)
    \/ Uncalled /\ SliceSliceAssign(SliceOps)
    \/ Uncalled /\ SliceMinus
    \/ Uncalled /\ SliceIndex

SpecSlices == InitSlices /\ [][NextSlices]_vars

\* One const call on a receiver that owns its buffer or borrows the
\* caller's: every matrix over SelfVals of up to MaxOperandDim rows and
\* columns, and the 3 x 3 matrix of the scenario for the closed form.
Receivers ==
    UNION { MatricesOf(shape[1], shape[2], SelfVals) : shape \in Shapes(MaxOperandDim) }
    \cup {ScenarioMatrix}

\* The answers of the eigensolver to the calls on objects: a handful of
\* successes and every failure.
ObjectAnswers(N) ==
    FewAnswers(N) \cup { a \in FailedAnswers(N) : a.queryInfo # 0 \/ a.alloc = "ok" }

InitObjects ==
    /\ \E m \in Receivers :
          \/ /\ self = Object("self", m.nRows, m.nCols)
             /\ heap = [EmptyHeap EXCEPT !["self"] = m.data]
          \/ /\ self = MatrixBorrowing(EmptyHeap, "self", "caller", m.nRows, m.nCols).value
             /\ heap = [EmptyHeap EXCEPT !["caller"] = m.data]
    /\ ObjectInit

NextObjects ==
    \/ Uncalled /\ CloneOn
    \/ Uncalled /\ TransposeOn
    \/ Uncalled /\ MultiplyOn(ShapeOperands)
    \/ Uncalled /\ DiagonalizeOn(ObjectAnswers(self.nRows))
    \/ Uncalled /\ InverseOn(ObjectAnswers(self.nRows))

SpecObjects == InitObjects /\ [][NextObjects]_vars

----------------------------------------------------------------------------
(* transposeInPlace() statement by statement.  self is the matrix with its *)
(* buffer, frame the locals of transposeMemoryInPlace: mn1, n, visited,    *)
(* cycle and a (offsets from first), with the number of swaps made so far  *)
(* and the fault, if a statement had no defined behaviour.                 *)

\* The elements operator() has been given before the call: all as the
\* constructor left them, or each its own offset.
Fillings == {"zeros", "offsets"}

Filled(nRows, nCols, filling) ==
    [Matrix(nRows, nCols) EXCEPT
        !.data = [i \in 0 .. nRows * nCols - 1 |-> IF filling = "zeros" THEN 0 ELSE i]]

\* A statement without defined behaviour: the process dies, or the call
\* returns with nothing more done than the swap of nCols_ and nRows_.
Undefined(fault) ==
    \E outcome \in UndefinedOutcomes :
        /\ frame' = [frame EXCEPT !.pc = "undefined", !.fault = fault]
        /\ process' = [process EXCEPT !.state = IF outcome = "crashed" THEN "crashed" ELSE @]
        /\ self' = (IF outcome = "returned"
                    THEN [self EXCEPT !.nRows = self.nCols, !.nCols = self.nRows]
                    ELSE self)
        /\ ret' = [ret EXCEPT !.status = "undefined"]

\* m.transposeInPlace() is called: lines 32 to 35 of transposeMemoryInPlace,
\* with first = begin(), last = end() and m = nCols_.
EnterTranspose ==
    /\ frame.pc = "none" /\ ret = NoCall
    /\ LET length == self.nRows * self.nCols
           entered == [pc |-> "while", mn1 |-> length - 1, n |-> 0,
                       visited |-> [i \in 0 .. length - 1 |-> FALSE],
                       cycle |-> 0, a |-> 0, swaps |-> 0, fault |-> "none"]
       IN  IF self.nCols = 0
           THEN \E outcome \in UndefinedOutcomes :
                   /\ frame' = [entered EXCEPT !.pc = "undefined", !.fault = "division by zero"]
                   /\ process' = [process EXCEPT
                                     !.state = IF outcome = "crashed" THEN "crashed" ELSE @]
                   /\ self' = (IF outcome = "returned"
                               THEN [self EXCEPT !.nRows = self.nCols, !.nCols = self.nRows]
                               ELSE self)
                   /\ ret' = [op |-> "transposeInPlace", status |-> "undefined", before |-> self]
           ELSE /\ frame' = [entered EXCEPT !.n = length \div self.nCols]
                /\ ret' = [op |-> "transposeInPlace", status |-> "running", before |-> self]
                /\ UNCHANGED <<self, process>>
    /\ UNCHANGED <<other, lapack, stderr, heap>>

\* while (++cycle != last) { if (visited[cycle - first]) continue;
\*                           int a = cycle - first; ...
\* and, when the loop is left, the return and std::swap(nCols_, nRows_).
NextCycle ==
    /\ frame.pc = "while"
    /\ LET cycle == frame.cycle + 1
       IN  IF cycle = self.nRows * self.nCols
           THEN /\ frame' = [frame EXCEPT !.pc = "done", !.cycle = cycle]
                /\ self' = [self EXCEPT !.nRows = self.nCols, !.nCols = self.nRows]
                /\ ret' = [ret EXCEPT !.status = "ok"]
                /\ UNCHANGED process
           ELSE IF cycle \notin DOMAIN frame.visited
           THEN Undefined("visited index out of range")
           ELSE /\ frame' = [frame EXCEPT !.cycle = cycle, !.a = cycle,
                                          !.pc = IF frame.visited[cycle] THEN "while" ELSE "do"]
                /\ UNCHANGED <<self, ret, process>>
    /\ UNCHANGED <<other, lapack, stderr, heap>>

\* do { a = a == mn1 ? mn1 : (n * a) % mn1;
\*      std::swap(*(first + a), *cycle);
\*      visited[a] = true;
\* } while ((first + a) != cycle);
FollowStep ==
    /\ frame.pc = "do"
    /\ IF frame.a # frame.mn1 /\ frame.mn1 = 0
       THEN Undefined("modulo by zero")
       ELSE LET a == IF frame.a = frame.mn1 THEN frame.mn1
                     ELSE (frame.n * frame.a) % frame.mn1
            IN  IF a \notin DOMAIN self.data \/ frame.cycle \notin DOMAIN self.data
                THEN Undefined("buffer index out of range")
                ELSE /\ self' = [self EXCEPT !.data = Swap(self.data, a, frame.cycle)]
                     /\ frame' = [frame EXCEPT !.a = a,
                                               !.visited = [@ EXCEPT ![a] = TRUE],
                                               !.swaps = @ + 1,
                                               !.pc = IF a # frame.cycle THEN "do" ELSE "while"]
                     /\ UNCHANGED <<ret, process>>
    /\ UNCHANGED <<other, lapack, stderr, heap>>

\* Every matrix Matrix(R, C) makes, R and C from 0 to MaxDim, transposed in
\* place one statement at a time.
InitSteps ==
    /\ \E nRows \in 0 .. MaxDim, nCols \in 0 .. MaxDim, filling \in Fillings :
           self = Filled(nRows, nCols, filling)
    /\ MatrixInit

NextSteps ==
    \/ EnterTranspose
    \/ NextCycle
    \/ FollowStep

SpecSteps == InitSteps /\ [][NextSteps]_vars

----------------------------------------------------------------------------
(* The claims. *)

\* The call returned nothing: it threw.
Failed == ret.status = "error" /\ "value" \notin DOMAIN ret

\* The sum over link < k of m(i, link) * o(link, j).
RECURSIVE SumProducts(_, _, _, _, _)
SumProducts(m, o, i, j, k) ==
    IF k = 0 THEN 0 ELSE SumProducts(m, o, i, j, k - 1) + At(m, i, k - 1) * At(o, k - 1, j)

\* The determinant of a 3 x 3 matrix as the sum over the six permutations.
LeibnizDet(m) ==
    At(m, 0, 0) * At(m, 1, 1) * At(m, 2, 2) + At(m, 0, 1) * At(m, 1, 2) * At(m, 2, 0)
        + At(m, 0, 2) * At(m, 1, 0) * At(m, 2, 1) - At(m, 0, 2) * At(m, 1, 1) * At(m, 2, 0)
        - At(m, 0, 1) * At(m, 1, 0) * At(m, 2, 2) - At(m, 0, 0) * At(m, 1, 2) * At(m, 2, 1)

IsShape(m, nRows, nCols) ==
    m.nRows = nRows /\ m.nCols = nCols /\ DOMAIN m.data = 0 .. nRows * nCols - 1

\* C1: for every 3 x 3 matrix M with nonzero determinant, inverse() returns
\* the cofactor numerators over the determinant: the numerators multiplied
\* by M are det(M) times the identity, and the divisor is det(M), whether or
\* not M is symmetric.
C1_ClosedFormInverse ==
    (ret.op = "inverse" /\ IsShape(self, 3, 3) /\ LeibnizDet(self) # 0) =>
        /\ ret.status = "ok"
        /\ IsShape(ret.value, 3, 3)
        /\ ret.den = LeibnizDet(self)
        /\ \A r \in 0 .. 2, c \in 0 .. 2 :
               SumProducts(ret.value, self, r, c, 3) = IF r = c THEN ret.den ELSE 0

\* C1: the inverse of the specification's scenario [[2,0,1],[3,1,0],[0,4,1]],
\* which is not symmetric and has determinant 14, has been returned.
C1_Witness ==
    /\ ret.op = "inverse" /\ ret.status = "ok"
    /\ self = ScenarioMatrix
    /\ ret.den = 14
    /\ At(ret.value, 0, 1) = 4

\* A matrix inverse() is called on is singular when it is 3 x 3 with a zero
\* determinant, or when it took the spectral path and the eigensolver
\* returned real eigenvalues one of which is zero.
SingularInverse ==
    /\ ret.op = "inverse"
    /\ \/ IsShape(self, 3, 3) /\ LeibnizDet(self) = 0
       \/ /\ lapack.called /\ lapack.alloc = "ok" /\ lapack.info = 0
          /\ \A k \in 0 .. self.nRows - 1 : lapack.evalsImag[k] = 0
          /\ \E k \in 0 .. self.nRows - 1 : lapack.evalsReal[k] = 0

\* C2: inverse() of a singular matrix fails with an error and returns no
\* matrix (3 x 3 with zero determinant, or a zero eigenvalue on the spectral
\* path).
C2_SingularInverseFails == SingularInverse => Failed

\* C3: for every R x C matrix, transposeInPlace() leaves a C x R matrix whose
\* element (c, r) is the original element (r, c).
C3_TransposeInPlace ==
    ret.op = "transposeInPlace" =>
        /\ IsShape(self, ret.before.nCols, ret.before.nRows)
        /\ \A r \in 0 .. ret.before.nRows - 1 : \A c \in 0 .. ret.before.nCols - 1 :
               At(self, c, r) = At(ret.before, r, c)

\* C3: a 2 x 3 matrix whose elements (0,1) and (1,0) differ has been
\* transposed in place.
C3_Witness ==
    /\ ret.op = "transposeInPlace"
    /\ IsShape(ret.before, 2, 3)
    /\ At(ret.before, 0, 1) # At(ret.before, 1, 0)
    /\ At(ret.before, 0, 2) # At(ret.before, 1, 1)

C5_Multiply ==
    ret.op = "multiply" =>
        IF self.nCols = other.nRows
        THEN /\ ret.status = "ok"
             /\ IsShape(ret.value, self.nRows, other.nCols)
             /\ \A i \in 0 .. self.nRows - 1 : \A j \in 0 .. other.nCols - 1 :
                    At(ret.value, i, j) = SumProducts(self, other, i, j, self.nCols)
        ELSE Failed

\* C5: a 1 x 2 matrix has been multiplied with a 2 x 2 matrix and an element
\* of the product sums two nonzero terms.
C5_Witness ==
    /\ ret.op = "multiply" /\ ret.status = "ok"
    /\ IsShape(self, 1, 2) /\ IsShape(other, 2, 2)
    /\ At(ret.value, 0, 1) = 2

\* diagonalize(order) returned eigenpairs.
Diagonalized == ret.op = "diagonalize" /\ ret.status = "ok"

\* C6 as claimed: the real eigenvalue components diagonalize(order) returns
\* are strictly increasing for Ascending and strictly decreasing for
\* Descending, whatever eigenvalues the eigensolver returned.
C6_StrictlyMonotone ==
    Diagonalized =>
        \A i \in 0 .. self.nRows - 2 :
            IF other.order = "Ascending"
            THEN ret.evalsReal.data[i] < ret.evalsReal.data[i + 1]
            ELSE ret.evalsReal.data[i] > ret.evalsReal.data[i + 1]

\* C6 as amended: the real eigenvalue components diagonalize(order) returns
\* never decrease with the index for Ascending and never increase for
\* Descending; equal eigenvalues stay next to each other.
C6_Monotone ==
    Diagonalized =>
        /\ IsShape(ret.evalsReal, self.nRows, 1)
        /\ \A i \in 0 .. self.nRows - 2 :
               IF other.order = "Ascending"
               THEN ret.evalsReal.data[i] <= ret.evalsReal.data[i + 1]
               ELSE ret.evalsReal.data[i] >= ret.evalsReal.data[i + 1]

\* C6: the eigensolver returned 1, 2, 1 and diagonalize(Descending) returned
\* 2, 1, 1.
C6_Witness ==
    /\ Diagonalized
    /\ other.order = "Descending"
    /\ self.nRows = 3
    /\ lapack.evalsReal = [k \in 0 .. 2 |-> IF k = 1 THEN 2 ELSE 1]
    /\ ret.evalsReal.data = [k \in 0 .. 2 |-> IF k = 0 THEN 2 ELSE 1]

\* C7: diagonalize reorders the eigenpairs the eigensolver produced by one
\* permutation p: output i has the real component, the imaginary component
\* and, as column i of V, the vector of pair p(i).
C7_ConsistentReordering ==
    Diagonalized =>
        LET N == self.nRows
        IN  /\ IsShape(ret.evalsReal, N, 1)
            /\ IsShape(ret.evalsImag, N, 1)
            /\ IsShape(ret.evecs, N, N)
            /\ \E p \in Permutations(0 .. N - 1) :
                   \A i \in 0 .. N - 1 :
                       /\ ret.evalsReal.data[i] = lapack.evalsReal[p[i]]
                       /\ ret.evalsImag.data[i] = lapack.evalsImag[p[i]]
                       /\ \A r \in 0 .. N - 1 :
                              At(ret.evecs, r, i) = lapack.evecs[p[i] * N + r]

\* C7: the eigensolver returned the eigenvalues 2, 0, 1 with imaginary parts
\* 0, 2, 0 and diagonalize(Ascending) moved every pair: 0, 1, 2.
C7_Witness ==
    /\ Diagonalized
    /\ other.order = "Ascending"
    /\ self.nRows = 3
    /\ lapack.evalsReal = [k \in 0 .. 2 |-> <<2, 0, 1>>[k + 1]]
    /\ lapack.evalsImag = [k \in 0 .. 2 |-> <<0, 2, 0>>[k + 1]]
    /\ lapack.evecs = [i \in 0 .. 8 |-> <<0, 1, 0, 0, 0, 1, 1, 0, 0>>[i + 1]]
    /\ ret.evalsReal.data = [k \in 0 .. 2 |-> k]
    /\ ret.evalsImag.data = [k \in 0 .. 2 |-> <<2, 0, 0>>[k + 1]]

\* C8: each precondition violation raises an error instead of returning a
\* value: almostEquals or dot on matrices of different dimensions, inverse or
\* diagonalize on a matrix with R # C, inverse on a square matrix that is not
\* 3 x 3 and has a pair with |M(r,c) - M(c,r)| above the symmetry threshold.
C8_PreconditionErrors ==
    /\ (/\ ret.op \in {"almostEquals", "dot"}
        /\ (self.nRows # other.nRows \/ self.nCols # other.nCols)) => Failed
    /\ (ret.op \in {"inverse", "diagonalize"} /\ self.nRows # self.nCols) => Failed
    /\ (/\ ret.op = "inverse"
        /\ self.nRows = self.nCols
        /\ self.nRows # 3
        /\ \E r \in 0 .. self.nRows - 1 : \E c \in 0 .. self.nCols - 1 :
               Abs(At(self, r, c) - At(self, c, r)) > SymmetricThreshold) => Failed

\* C8: inverse() has thrown on a 2 x 2 matrix whose off-diagonal elements
\* differ by two units.
C8_Witness ==
    /\ ret.op = "inverse"
    /\ IsShape(self, 2, 2)
    /\ At(self, 0, 1) = 2 /\ At(self, 1, 0) = 0
    /\ Failed
    /\ ret.what = "Unexpected non-symmetric matrix found."

\* C9: whenever the eigensolver reports a failure status on a call made by
\* diagonalize (the workspace-size query or the decomposition), diagonalize
\* raises an error and returns no eigenpairs.
C9_SolverFailureRaises ==
    (/\ ret.op = "diagonalize"
     /\ lapack.called
     /\ (lapack.queryInfo # 0 \/ lapack.info # 0)) =>
        ret.status = "error" /\ "evalsReal" \notin DOMAIN ret

EntryPoints ==
    {"helpme_createD", "helpme_createF", "helpme_setupD", "helpme_setupF",
     "helpme_set_lattice_vectorsD", "helpme_set_lattice_vectorsF",
     "helpme_compute_EF_recD", "helpme_compute_EF_recF"}

\* C10: at the flat-call boundary every exceptional condition raised by the
\* wrapped operation is caught inside the entry point: a diagnostic is on
\* standard error and the process has exited with a nonzero code, nothing
\* propagates to the caller and no value is returned; when nothing is raised
\* the entry point returns the operation's result and the process runs on.
C10_BoundaryCatchesAll ==
    ret.op \in EntryPoints =>
        /\ ret.status \in {"returned", "exited"}
        /\ ret.outcome.kind = "value" =>
               /\ ret.status = "returned"
               /\ ret.value = ret.outcome.value
               /\ process.state = "running"
        /\ ret.outcome.kind # "value" =>
               /\ ret.status = "exited"
               /\ "value" \notin DOMAIN ret
               /\ process.state = "exited"
               /\ process.exitCode # 0
               /\ Len(stderr) = 1
        /\ ret.outcome.kind = "runtime_error" => stderr[1] = ret.outcome.what
        /\ process.state = "exited" <=> ret.status = "exited"

\* C10: after two calls that returned, helpme_compute_EF_recF met an
\* exception that is not a std::runtime_error and the process has exited.
C10_Witness ==
    /\ ret.op = "helpme_compute_EF_recF"
    /\ ret.outcome.kind = "other"
    /\ process = [state |-> "exited", exitCode |-> 1, calls |-> 3]
    /\ stderr = <<"An unknown error occured in helpme_run_pmeF">>

\* The rows of a list do not all have the same length.
Ragged(data) == \E i, j \in 1 .. Len(data) : Len(data[i]) # Len(data[j])

\* The elements of a list of rows, one row after the other.
RECURSIVE Flatten(_)
Flatten(data) == IF data = <<>> THEN <<>> ELSE Head(data) \o Flatten(Tail(data))

\* C11: every owning Matrix holds exactly nRows * nCols elements in its
\* vector, after each of the three constructors and after any sequence of
\* setConstant, setZero, applyOperationToEachElement, slice arithmetic and
\* transposeInPlace; a list of rows of unequal lengths makes the constructor
\* throw and leaves no matrix, and a list of rows of equal lengths makes the
\* matrix of those rows.
C11_StorageSize ==
    /\ (self # NoMatrix /\ Owning(self)) =>
           /\ Size(heap[self.allocatedData_]) = self.nRows * self.nCols
           /\ DOMAIN heap[self.data_] = 0 .. self.nRows * self.nCols - 1
    /\ (ret.op = "Matrix" /\ other.kind = "rows") =>
           IF Ragged(other.data)
           THEN /\ Failed
                /\ ret.what = "Inconsistent row dimensions in matrix specification."
                /\ self = NoMatrix
           ELSE /\ ret.status = "ok"
                /\ self.nRows = Len(other.data)
                /\ \A i \in 0 .. self.nRows * self.nCols - 1 :
                       heap[self.data_][i] = Flatten(other.data)[i + 1]

\* A matrix made from a list of rows, not square, after a slice assignment
\* and a transposeInPlace().
C11_Witness ==
    /\ self # NoMatrix /\ Owning(self)
    /\ self.nRows = 1 /\ self.nCols = 2
    /\ process.calls = 2
    /\ ret.op = "transposeInPlace" /\ ret.status = "ok"
    /\ heap[self.data_][0] = 22 /\ heap[self.data_][1] = 21

\* Element i of a row or a column of the matrix an object shows.
ElementOf(h, m, which, i) ==
    IF which.axis = "row" THEN At(View(h, m), which.index, i)
    ELSE At(View(h, m), i, which.index)

\* The number of elements of a row or a column, and the distance in the
\* buffer from one to the next.
LengthOf(m, which) == IF which.axis = "row" THEN m.nCols ELSE m.nRows

StrideOf(m, which) == IF which.axis = "row" THEN 1 ELSE m.nCols

\* The matrix the right operand of a slice operation belongs to.
RightMatrix(right) == IF right.of = "self" THEN self ELSE other.value

\* Every buffer but those in `written` is left as it was.
OnlyWrites(written) == \A b \in Buffers \ written : heap'[b] = heap[b]

\* C12: an operation between two slices (operator-, operator-=, operator+=)
\* throws and modifies no element of any matrix when the slices differ in
\* size or one of them has a stride other than 1; otherwise element i of the
\* result (of the left slice, for the compound forms) is left[i] - right[i]
\* or left[i] + right[i], with the operands as they were before the call,
\* and no other element changes.
C12_SliceArithmetic ==
    [][(ret'.op \in {"operator-", "operator-=", "operator+="} /\ ret'.with = "slice") =>
        LET left == ret'.which
            right == ret'.right
            rm == RightMatrix(right)
            n == LengthOf(self, left)
            unfit == \/ n # LengthOf(rm, right.which)
                     \/ StrideOf(self, left) # 1
                     \/ StrideOf(rm, right.which) # 1
            expected(i) ==
                IF ret'.op = "operator+="
                THEN ElementOf(heap, self, left, i) + ElementOf(heap, rm, right.which, i)
                ELSE ElementOf(heap, self, left, i) - ElementOf(heap, rm, right.which, i)
        IN  /\ self' = self /\ other' = other
            /\ IF unfit
               THEN /\ ret'.status = "error" /\ "value" \notin DOMAIN ret'
                    /\ heap' = heap
               ELSE /\ ret'.status = "ok"
                    /\ IF ret'.op = "operator-"
                       THEN /\ ret'.value.nRows = 1 /\ ret'.value.nCols = n
                            /\ ret'.value.data_ \notin {self.data_, rm.data_}
                            /\ OnlyWrites({ret'.value.data_})
                            /\ \A i \in 0 .. n - 1 :
                                   At(View(heap', ret'.value), 0, i) = expected(i)
                       ELSE /\ OnlyWrites({self.data_})
                            /\ \A i \in 0 .. n - 1 :
                                   ElementOf(heap', self, left, i) = expected(i)
                            /\ \A k \in DOMAIN heap[self.data_] :
                                   (\A i \in 0 .. n - 1 :
                                        k # left.index * self.nCols + i) =>
                                       heap'[self.data_][k] = heap[self.data_][k]
      ]_vars

\* A column of a matrix with two columns was added to a row of the same
\* length: the call threw.
C12_Witness ==
    /\ ret.op = "operator+=" /\ ret.status = "error"
    /\ ret.with = "slice"
    /\ ret.which.axis = "row" /\ ret.right.which.axis = "col"
    /\ self.nCols = 2
    /\ LengthOf(self, ret.which) = LengthOf(RightMatrix(ret.right), ret.right.which)
    /\ RightMatrix(ret.right).nCols = 2

\* The matrices a call handed back, as objects.
Returned(call) ==
    IF call.status # "ok" THEN {}
    ELSE IF call.op = "diagonalize" THEN {call.evalsReal, call.evalsImag, call.evecs}
    ELSE {call.value}

\* C13: inverse(), transpose(), diagonalize(), multiply() and clone() leave
\* the receiver as it was, whether they return or throw: its row count, its
\* column count, its pointer and every element of the buffer it points to,
\* owned or borrowed, and its own vector; each matrix they return owns a
\* vector that is neither the receiver's buffer nor the receiver's vector.
C13_ReceiverUntouched ==
    [][(ret'.op \in {"inverse", "transpose", "diagonalize", "multiply", "clone"}) =>
        /\ self' = self
        /\ heap'[self.data_] = heap[self.data_]
        /\ heap'[self.allocatedData_] = heap[self.allocatedData_]
        /\ View(heap', self') = View(heap, self)
        /\ ret'.status \in {"ok", "error"}
        /\ \A v \in Returned(ret') :
               /\ Owning(v)
               /\ v.data_ \notin {self.data_, self.allocatedData_}
               /\ Size(heap'[v.data_]) = v.nRows * v.nCols
      ]_vars

\* transpose() returned the transpose of a 2 x 2 matrix that borrows the
\* caller's buffer and is not symmetric.
C13_Witness ==
    /\ ret.op = "transpose" /\ ret.status = "ok"
    /\ ~ Owning(self) /\ self.data_ = "caller"
    /\ self.nRows = 2 /\ self.nCols = 2
    /\ heap[self.data_][1] # heap[self.data_][2]
    /\ View(heap, ret.value) = transpose(View(heap, self))

\* The offset in the buffer of element i of a row or a column.
OffsetOf(m, which, i) ==
    IF which.axis = "row" THEN which.index * m.nCols + i ELSE i * m.nCols + which.index

\* The value a compound assignment with a scalar gives an element.
Assigned(kind, element, val, result) ==
    CASE kind = "operator*=" -> result = element * val
      [] kind = "operator/=" -> result * val = element
      [] kind = "operator-=" -> result = element - val
      [] kind = "operator+=" -> result = element + val

\* C14: on a matrix with at least one row and one column, the loop over
\* row(r) visits the elements (r,0), ..., (r,C-1) in this order and
\* row(r).size() is C; the loop over col(c) visits (0,c), ..., (R-1,c) in
\* this order and col(c).size() is R; both loops end; a scalar *=, /=, += or
\* -= on the slice updates each of these elements once and leaves every
\* other element of the matrix, and every other buffer, as it was.
C14_SliceIteration ==
    [][(ret'.op \in ScalarOps /\ ret'.with = "scalar") =>
        LET which == ret'.which
            n == LengthOf(self, which)
            inSlice == { OffsetOf(self, which, i) : i \in 0 .. n - 1 }
        IN  /\ self.nRows >= 1 /\ self.nCols >= 1
            /\ ret'.terminated
            /\ ret'.size = n
            /\ ret'.visited = [i \in 1 .. n |-> OffsetOf(self, which, i - 1)]
            /\ self' = self
            /\ OnlyWrites({self.data_})
            /\ DOMAIN heap'[self.data_] = DOMAIN heap[self.data_]
            /\ \A k \in DOMAIN heap[self.data_] :
                   IF k \in inSlice
                   THEN Assigned(ret'.op, heap[self.data_][k], ret'.val, heap'[self.data_][k])
                   ELSE heap'[self.data_][k] = heap[self.data_][k]
      ]_vars

\* 2 was added to the second column of the 2 x 2 matrix {{11, 12}, {21, 22}}.
C14_Witness ==
    /\ ret.op = "operator+=" /\ ret.with = "scalar" /\ ret.val = 2
    /\ ret.which = [axis |-> "col", index |-> 1]
    /\ self.nRows = 2 /\ self.nCols = 2
    /\ ret.visited = <<1, 3>>
    /\ heap[self.data_] = [k \in 0 .. 3 |-> <<11, 14, 21, 24>>[k + 1]]

\* C15: transposeInPlace() on any matrix made by Matrix(R, C), R >= 0 and
\* C >= 0, runs without a division or a modulo by zero, reads and writes
\* the buffer and the visited markers only at indices in [0, R*C), makes no
\* more swaps than there are elements and, once no statement is left to
\* run, has returned.
C15_TransposeTerminates ==
    frame.pc # "none" =>
        /\ frame.fault = "none"
        /\ frame.swaps <= ret.before.nRows * ret.before.nCols
        /\ (~ ENABLED NextSteps) => (frame.pc = "done" /\ ret.status = "ok")

\* C16: indexing a slice agrees with iterating it: s[i] is the i-th element
\* the loop over s visits, so row(r)[i] is the matrix element (r, i) and
\* col(c)[i] is the matrix element (i, c), for every i below s.size().
C16_IndexAgreesWithIteration ==
    (ret.op = "operator[]") =>
        LET s == SliceOf(self, ret.which)
        IN  /\ ret.index < size(s)
            /\ ret.value = heap[s.buf][Elements(heap, s).visited[ret.index + 1]]
            /\ ret.value = ElementOf(heap, self, ret.which, ret.index)

====
